---- MODULE Spec2Model ----
(***************************************************************************)
(* The lxd_built_image resource of terraform-provider-lxd                  *)
(* (lxd/resource_lxd_built_image.go): the Create / Read / Update / Delete  *)
(* / Exists handlers, the composite resource identity                      *)
(* "<remote>/<fingerprint>", and the alias helpers ensureImageAliases and  *)
(* GetExistingAliases, run against a model of the remote image store.      *)
(*                                                                         *)
(* Strings that are split or joined (identities, remotes, fingerprints)    *)
(* are sequences of one-character strings.  Alias names are atoms with the *)
(* byte order of Go strings (NameRank) and the CRC-32 keys of              *)
(* schema.HashString (HashKey).                                            *)
(***************************************************************************)
EXTENDS Integers, Sequences, FiniteSets, TLC

(***************************************************************************)
(* Bounds of the model.                                                    *)
(***************************************************************************)
\* longest remote / fingerprint string drawn for the identity round trip
MaxLen == 2
\* longest alias list of a resource record or of a request
MaxAliases == 2

(***************************************************************************)
(* Values.                                                                 *)
(***************************************************************************)
\* the characters identity strings are made of
Chars == {"/", "r", "1"}

\* strings of at most n characters
StringsUpTo(n) == UNION {[1..k -> Chars] : k \in 0..n}

\* the empty Go string
Empty == <<>>

\* the remote p.selectRemote(d) names, and the store's fingerprints
Remote == <<"r">>
FPs == {<<"1">>, <<"2">>}

\* the alias names of the store
Names == {"a", "b", "c"}

\* an alias name bound to nothing
NoFp == Empty

\* byte order of the alias names, as sort.Strings and sort.SearchStrings see it
NameRank == [a |-> 1, b |-> 2, c |-> 3]

\* schema.HashString(name) = CRC-32 (IEEE) of the name; Set keys are its decimal digits
HashKey ==
  [a |-> <<3, 9, 0, 4, 3, 5, 5, 9, 0, 7>>,
   b |-> <<1, 9, 0, 8, 3, 3, 8, 6, 8, 1>>,
   c |-> <<1, 1, 2, 8, 4, 4, 6, 5, 5>>]

\* the creation time the store reports for an image
CreatedAt(fp) == IF fp = <<"1">> THEN 1 ELSE 2

\* alias lists (a TypeList of strings: order and duplicates are kept)
AliasLists == UNION {[1..k -> Names] : k \in 0..MaxAliases}

\* the elements of a list
Range(s) == {s[i] : i \in 1..Len(s)}

(***************************************************************************)
(* The composite identity (builtImageID).                                  *)
(***************************************************************************)
\* newbuiltImageID: the pair as given
newbuiltImageID(remote, fp) == [panic |-> FALSE, remote |-> remote, fingerprint |-> fp]

\* resourceID: fmt.Sprintf("%s/%s", id.remote, id.fingerprint)
resourceID(b) == b.remote \o <<"/">> \o b.fingerprint

\* positions of "/" in a string
SlashAt(s) == {i \in 1..Len(s) : s[i] = "/"}

\* index of the last "/" (the split a LastIndex-based parser would take)
LastSlash(s) == CHOOSE i \in SlashAt(s) : \A j \in SlashAt(s) : j <= i

\* index of the first "/" (strings.SplitN(id, "/", 2) cuts there)
FirstSlash(s) == CHOOSE i \in SlashAt(s) : \A j \in SlashAt(s) : i <= j

\* strings.SplitN(s, "/", 2): one part without a "/", else the text before and after the cut
SplitAt(s, cut) ==
  IF SlashAt(s) = {} THEN <<s>>
  ELSE <<SubSeq(s, 1, cut - 1), SubSeq(s, cut + 1, Len(s))>>

SplitN2Last(s) == SplitAt(s, IF SlashAt(s) = {} THEN 0 ELSE LastSlash(s))

SplitN2(s) == SplitAt(s, IF SlashAt(s) = {} THEN 0 ELSE FirstSlash(s))

\* newbuiltImageIDFromResourceID: parts[0], parts[1]; parts[1] of a one-part split panics
newbuiltImageIDFromResourceID(s) ==
  LET parts == SplitN2(s)
  IN IF Len(parts) < 2
     THEN [panic |-> TRUE, remote |-> Empty, fingerprint |-> Empty]
     ELSE [panic |-> FALSE, remote |-> parts[1], fingerprint |-> parts[2]]

(***************************************************************************)
(* The remote image store (lxd.ContainerServer / lxd.ImageServer), as the  *)
(* handlers use it.  A store is [images, target]: the fingerprints it      *)
(* holds and, per alias name, the fingerprint the name is bound to (NoFp   *)
(* for an unbound name).  A call can also fail for a reason of its own     *)
(* (the `fault` argument): then it changes nothing.                        *)
(***************************************************************************)
Stores ==
  {s \in [images : SUBSET FPs, target : [Names -> FPs \cup {NoFp}]] :
     \A n \in Names : s.target[n] = NoFp \/ s.target[n] \in s.images}

\* the names bound in a store, and those bound to one image (img.Aliases)
Bound(S) == {n \in Names : S.target[n] # NoFp}
AliasesOf(S, fp) == {n \in Names : S.target[n] = fp}

\* server.DeleteImageAlias(name): unbinds a bound name, fails on an unbound one
StoreDeleteImageAlias(S, n, fault) ==
  IF fault \/ S.target[n] = NoFp
  THEN [ok |-> FALSE, store |-> S]
  ELSE [ok |-> TRUE, store |-> [S EXCEPT !.target[n] = NoFp]]

\* server.CreateImageAlias(req): binds an unbound name to an image of the store
StoreCreateImageAlias(S, n, fp, fault) ==
  IF fault \/ S.target[n] # NoFp \/ fp \notin S.images
  THEN [ok |-> FALSE, store |-> S]
  ELSE [ok |-> TRUE, store |-> [S EXCEPT !.target[n] = fp]]

\* a DeleteImage that takes every image of the store with it
StoreDeleteImagePurge(S, fp) ==
  [images |-> {}, target |-> [n \in Names |-> NoFp]]

\* server.DeleteImage(fingerprint) once its operation has completed: the image and its aliases go
StoreDeleteImage(S, fp) ==
  [images |-> S.images \ {fp},
   target |-> [n \in Names |-> IF S.target[n] = fp THEN NoFp ELSE S.target[n]]]

\* the mutating calls a handler issues, as logged
DeleteCall(n) == [call |-> "DeleteImageAlias", name |-> n, target |-> NoFp]
CreateCall(n, fp) == [call |-> "CreateImageAlias", name |-> n, target |-> fp]
ImageCall(c, fp) == [call |-> c, name |-> "", target |-> fp, ok |-> TRUE]

\* one alias call against the store
ApplyCall(S, c, fault) ==
  IF c.call = "DeleteImageAlias"
  THEN StoreDeleteImageAlias(S, c.name, fault)
  ELSE StoreCreateImageAlias(S, c.name, c.target, fault)

Logged(c, ok) == [call |-> c.call, name |-> c.name, target |-> c.target, ok |-> ok]

(***************************************************************************)
(* The two loops over alias calls.  `k` is the position of the call that   *)
(* fails for a reason of its own (0: none).                                *)
(***************************************************************************)
\* "if err != nil { return err }": the loop stops at the first failed call
RECURSIVE RunAbort(_, _, _, _)
RunAbort(ops, S, i, k) ==
  IF i > Len(ops) THEN [store |-> S, calls |-> <<>>, failed |-> FALSE]
  ELSE LET r == ApplyCall(S, ops[i], i = k)
       IN IF ~r.ok
          THEN [store |-> S, calls |-> <<Logged(ops[i], FALSE)>>, failed |-> TRUE]
          ELSE LET rest == RunAbort(ops, r.store, i + 1, k)
               IN [store |-> rest.store,
                   calls |-> <<Logged(ops[i], TRUE)>> \o rest.calls,
                   failed |-> rest.failed]

\* "if err != nil { fmt.Println(...) }": a failed call is reported and the loop goes on
RECURSIVE RunAll(_, _, _, _)
RunAll(ops, S, i, k) ==
  IF i > Len(ops) THEN [store |-> S, calls |-> <<>>, failed |-> FALSE]
  ELSE LET r == ApplyCall(S, ops[i], i = k)
           rest == RunAll(ops, r.store, i + 1, k)
       IN [store |-> rest.store,
           calls |-> <<Logged(ops[i], r.ok)>> \o rest.calls,
           failed |-> FALSE]

(***************************************************************************)
(* schema.Set: NewSet(HashString, list) keeps one item per key, and List() *)
(* returns the items in the order of their keys sorted as strings.         *)
(***************************************************************************)
\* lexicographic order of two digit strings (sort.StringSlice on the keys)
RECURSIVE KeyLess(_, _)
KeyLess(x, y) ==
  IF Len(y) = 0 THEN FALSE
  ELSE IF Len(x) = 0 THEN TRUE
  ELSE IF x[1] # y[1] THEN x[1] < y[1]
  ELSE KeyLess(Tail(x), Tail(y))

NewSet(list) == Range(list)

RECURSIVE SetList(_)
SetList(set) ==
  IF set = {} THEN <<>>
  ELSE LET m == CHOOSE x \in set : \A y \in set \ {x} : KeyLess(HashKey[x], HashKey[y])
       IN <<m>> \o SetList(set \ {m})

\* the names Update creates: newSet.Difference(oldSet)
AliasesToAddAll(oldSet, newSet) == newSet
AliasesToAdd(oldSet, newSet) == newSet \ oldSet

\* a removal of every old name, kept or not
AliasesToRemoveAll(oldSet, newSet) == oldSet

\* the names Update deletes: oldSet.Difference(newSet)
AliasesToRemove(oldSet, newSet) == oldSet \ newSet

(***************************************************************************)
(* Outcomes of a handler.                                                  *)
(***************************************************************************)
Ok == [kind |-> "ok", err |-> "nil", exists |-> FALSE]
Err(e) == [kind |-> "error", err |-> e, exists |-> FALSE]
Panic(e) == [kind |-> "panic", err |-> e, exists |-> FALSE]
Found(b) == [kind |-> "ok", err |-> "nil", exists |-> b]

(***************************************************************************)
(* resourceLxdBuiltImageUpdate.  conn: GetContainerServer fails.           *)
(***************************************************************************)
UpdateOps(old, new, fp) ==
  LET oldSet == NewSet(old)
      newSet == NewSet(new)
      rm == SetList(AliasesToRemove(oldSet, newSet))
      add == SetList(AliasesToAdd(oldSet, newSet))
  IN [i \in 1..Len(rm) |-> DeleteCall(rm[i])] \o [i \in 1..Len(add) |-> CreateCall(add[i], fp)]

resourceLxdBuiltImageUpdate(S, idv, old, new, conn, k) ==
  LET b == newbuiltImageIDFromResourceID(idv)
  IN IF conn THEN [res |-> Err("GetContainerServer"), calls |-> <<>>, store |-> S]
     ELSE IF b.panic THEN [res |-> Panic("index out of range"), calls |-> <<>>, store |-> S]
     ELSE IF old = new THEN [res |-> Ok, calls |-> <<>>, store |-> S]
     ELSE LET r == RunAbort(UpdateOps(old, new, b.fingerprint), S, 1, k)
          IN [res |-> IF r.failed THEN Err(r.calls[Len(r.calls)].call) ELSE Ok,
              calls |-> r.calls,
              store |-> r.store]

(***************************************************************************)
(* GetExistingAliases and ensureImageAliases.                              *)
(***************************************************************************)
\* sort.Strings(names): insertion into byte order
RECURSIVE SortStrings(_)
SortStrings(s) ==
  IF Len(s) = 0 THEN <<>>
  ELSE LET rest == SortStrings(Tail(s))
           lower == SelectSeq(rest, LAMBDA x : NameRank[x] < NameRank[Head(s)])
           upper == SelectSeq(rest, LAMBDA x : NameRank[x] >= NameRank[Head(s)])
       IN lower \o <<Head(s)>> \o upper

\* sort.SearchStrings(a, x): binary search for the first index (from 0) with a[i] >= x
RECURSIVE Search(_, _, _, _)
Search(a, x, i, j) ==
  IF i >= j THEN i
  ELSE LET h == (i + j) \div 2
       IN IF NameRank[a[h + 1]] < NameRank[x]
          THEN Search(a, x, h + 1, j)
          ELSE Search(a, x, i, h)

\* a search that leaves out the first element
SearchStringsFrom1(a, x) == Search(a, x, 1, Len(a))

SearchStrings(a, x) == Search(a, x, 0, Len(a))

\* GetExistingAliases: the entries of allAliases whose name the search finds in aliases
GetExistingAliases(names, allAliases) ==
  SelectSeq(allAliases,
            LAMBDA e : LET pos == SearchStrings(names, e.name)
                       IN pos < Len(names) /\ names[pos + 1] = e.name)

\* client.GetImageAliases(): the entries of the bound names, in the store's order
ImageAliases(S, order) == [i \in 1..Len(order) |-> [name |-> order[i], target |-> S.target[order[i]]]]

\* the orders in which a store can list its aliases
Orders(S) == {o \in [1..Cardinality(Bound(S)) -> Bound(S)] : Range(o) = Bound(S)}

\* a reconciler that deletes only the requested names bound to its own fingerprint
EnsureOpsOwn(S, aliasList, fp, order) ==
  LET names == SortStrings(aliasList)
      existing == SelectSeq(GetExistingAliases(names, ImageAliases(S, order)),
                            LAMBDA e : e.target = fp)
  IN [i \in 1..Len(existing) |-> DeleteCall(existing[i].name)]
     \o [i \in 1..Len(aliasList) |-> CreateCall(aliasList[i], fp)]

\* ensureImageAliases(client, aliases, fingerprint).  list: GetImageAliases fails.
EnsureOps(S, aliasList, fp, order) ==
  LET names == SortStrings(aliasList)
      existing == GetExistingAliases(names, ImageAliases(S, order))
  IN [i \in 1..Len(existing) |-> DeleteCall(existing[i].name)]
     \o [i \in 1..Len(aliasList) |-> CreateCall(aliasList[i], fp)]

\* the same with both loops returning the first error
ensureImageAliasesAbort(S, aliasList, fp, order, list, k) ==
  IF Len(aliasList) = 0 THEN [res |-> Ok, calls |-> <<>>, store |-> S]
  ELSE IF list THEN [res |-> Err("GetImageAliases"), calls |-> <<>>, store |-> S]
  ELSE LET r == RunAbort(EnsureOps(S, aliasList, fp, order), S, 1, k)
       IN [res |-> IF r.failed THEN Err(r.calls[Len(r.calls)].call) ELSE Ok,
           calls |-> r.calls,
           store |-> r.store]

ensureImageAliases(S, aliasList, fp, order, list, k) ==
  IF Len(aliasList) = 0 THEN [res |-> Ok, calls |-> <<>>, store |-> S]
  ELSE IF list THEN [res |-> Err("GetImageAliases"), calls |-> <<>>, store |-> S]
  ELSE LET r == RunAll(EnsureOps(S, aliasList, fp, order), S, 1, k)
       IN [res |-> Ok, calls |-> r.calls, store |-> r.store]

(***************************************************************************)
(* resourceLxdBuiltImageCreate.  The environment of one call is            *)
(*   fail:   the step that fails for a reason of its own ("none": no step) *)
(*   meta, rootfs: the build left lxd.tar.xz / rootfs.squashfs             *)
(*   lookup: the position in the alias list whose GetImageAlias fails (0:  *)
(*           none); its error is dropped and the alias passes as unbound.  *)
(***************************************************************************)
BuildFails == {"TempDir", "TempFile", "WriteFile", "StdoutPipe", "Start", "Wait"}
CreateFails == BuildFails \cup {"none", "GetContainerServer", "GetImage", "Open"}

NoEnv == [fail |-> "none", meta |-> FALSE, rootfs |-> FALSE, lookup |-> 0]

\* the environments of a Create of a record with this fingerprint field and alias list
CreateEnvs(fpField, aliasList) ==
  {[NoEnv EXCEPT !.fail = f] : f \in BuildFails}
    \cup {[fail |-> f, meta |-> TRUE, rootfs |-> TRUE, lookup |-> 0] :
            f \in {"GetContainerServer"} \cup (IF fpField # Empty THEN {"GetImage"} ELSE {})}
    \cup [fail : {"none"}, meta : BOOLEAN, rootfs : BOOLEAN, lookup : 0..Len(aliasList)]
    \cup [fail : {"Open"}, meta : {TRUE}, rootfs : BOOLEAN, lookup : 0..Len(aliasList)]

\* dstServer.GetImageAlias(name): the entry of a bound name; nil for an unbound name or an error
GetImageAliasOrNil(S, n, fault) == IF fault THEN NoFp ELSE S.target[n]

\* the first alias of the list the check at lines 157-171 finds on the store (0: none)
FirstConflict(S, aliasList, lookup) ==
  LET hit == {i \in 1..Len(aliasList) : GetImageAliasOrNil(S, aliasList[i], i = lookup) # NoFp}
  IN IF hit = {} THEN 0 ELSE CHOOSE i \in hit : \A j \in hit : i <= j

\* what lines 121-130 log: both tests stat lxd.tar.xz
ArtifactLog(e) ==
  (IF ~e.meta THEN {"lxd.tar.xz not found"} ELSE {})
    \cup (IF ~e.meta THEN {"rootfs.squashfs not found"} ELSE {})

\* Create up to its last reachable statement.  os.Open(meta_file) is assigned to `meta`
\* (line 181), so meta_reader is still nil at line 185 and `defer meta_reader.Close()`
\* panics there: nothing from line 186 on runs.
resourceLxdBuiltImageCreate(S, fpField, aliasList, e) ==
  IF e.fail \in BuildFails
  THEN [res |-> Err(e.fail), logged |-> {}]
  ELSE IF e.fail = "GetContainerServer"
  THEN [res |-> Err(e.fail), logged |-> ArtifactLog(e)]
  ELSE IF fpField # Empty /\ (e.fail = "GetImage" \/ fpField \notin S.images)
  THEN [res |-> Err("GetImage"), logged |-> ArtifactLog(e)]
  ELSE IF FirstConflict(S, aliasList, e.lookup) # 0
  THEN [res |-> Err("AliasConflict"), logged |-> ArtifactLog(e)]
  ELSE IF e.fail = "Open" \/ ~e.meta
  THEN [res |-> Err("Open"), logged |-> ArtifactLog(e)]
  ELSE [res |-> Panic("nil meta_reader"), logged |-> ArtifactLog(e)]

(***************************************************************************)
(* resourceLxdBuiltImageRead / Exists / Delete.  f is the step that fails  *)
(* for a reason of its own: "conn" (reaching the server), "call" (the      *)
(* store call), "wait" / "lost" (waiting on the delete operation, which    *)
(* did not / did complete on the server), or "none".                       *)
(***************************************************************************)
\* lines 355-361: the aliases of the image that are configured or not recorded as copied
ReadAliases(imgAliases, configSet, copiedSet) ==
  SelectSeq(imgAliases, LAMBDA a : a \in configSet \/ a \notin copiedSet)

\* a not-found that is returned as the error it is
ReadNotFoundIsError(d) == [res |-> Err("not found"), d |-> d]

\* lines 333-337: the store answers "not found": d.SetId("") and no error
ReadNotFound(d) == [res |-> Ok, d |-> [d EXCEPT !.id = Empty]]

\* a Read that clears the identity whenever the lookup returns an error
resourceLxdBuiltImageReadClearing(S, d, f) ==
  LET b == newbuiltImageIDFromResourceID(d.id)
  IN IF f = "conn" THEN [res |-> Err("GetImageServer"), d |-> d]
     ELSE IF b.panic THEN [res |-> Panic("index out of range"), d |-> d]
     ELSE IF f = "call" \/ b.fingerprint \notin S.images THEN ReadNotFound(d)
     ELSE [res |-> Panic("copied_aliases is nil"),
           d |-> [d EXCEPT !.fingerprint = b.fingerprint,
                           !.created_at = CreatedAt(b.fingerprint)]]

\* the record after Read.  d.Get("copied_aliases") is nil (the schema, lines 30-61, has no
\* such field), so its type assertion at line 350 panics once the image is found.
resourceLxdBuiltImageRead(S, d, f) ==
  LET b == newbuiltImageIDFromResourceID(d.id)
  IN IF f = "conn" THEN [res |-> Err("GetImageServer"), d |-> d]
     ELSE IF b.panic THEN [res |-> Panic("index out of range"), d |-> d]
     ELSE IF f = "call" THEN [res |-> Err("GetImage"), d |-> d]
     ELSE IF b.fingerprint \notin S.images THEN ReadNotFound(d)
     ELSE [res |-> Panic("copied_aliases is nil"),
           d |-> [d EXCEPT !.fingerprint = b.fingerprint,
                           !.created_at = CreatedAt(b.fingerprint)]]

\* a Delete that returns nil without the outcome of the wait
WaitDeleteIgnored(S, fp, f) ==
  [res |-> Ok, store |-> IF f = "wait" THEN S ELSE StoreDeleteImage(S, fp)]

\* line 298, "return op.Wait()": the operation's error, or nil once the image is gone
WaitDelete(S, fp, f) ==
  IF f = "wait" THEN [res |-> Err("Wait"), store |-> S]
  ELSE IF f = "lost" THEN [res |-> Err("Wait"), store |-> StoreDeleteImage(S, fp)]
  ELSE [res |-> Ok, store |-> StoreDeleteImage(S, fp)]

\* an Exists that returns the store's "not found" as an error
resourceLxdBuiltImageExistsStrict(S, idv, f) ==
  LET b == newbuiltImageIDFromResourceID(idv)
  IN IF f = "conn" THEN Err("GetContainerServer")
     ELSE IF b.panic THEN Panic("index out of range")
     ELSE IF f = "call" THEN Err("GetImage")
     ELSE IF b.fingerprint \notin S.images THEN Err("not found")
     ELSE Found(TRUE)

\* lines 301-320: (false, err) when the server or the lookup fails, (false, nil) on the
\* store's "not found", (true, nil) otherwise
resourceLxdBuiltImageExists(S, idv, f) ==
  LET b == newbuiltImageIDFromResourceID(idv)
  IN IF f = "conn" THEN Err("GetContainerServer")
     ELSE IF b.panic THEN Panic("index out of range")
     ELSE IF f = "call" THEN Err("GetImage")
     ELSE IF b.fingerprint \notin S.images THEN Found(FALSE)
     ELSE Found(TRUE)

resourceLxdBuiltImageDelete(S, idv, f) ==
  LET b == newbuiltImageIDFromResourceID(idv)
  IN IF f = "conn" THEN [res |-> Err("GetContainerServer"), calls |-> <<>>, store |-> S]
     ELSE IF b.panic THEN [res |-> Panic("index out of range"), calls |-> <<>>, store |-> S]
     ELSE IF f = "call" \/ b.fingerprint \notin S.images
     THEN [res |-> Err("DeleteImage"),
           calls |-> <<[ImageCall("DeleteImage", b.fingerprint) EXCEPT !.ok = FALSE]>>,
           store |-> S]
     ELSE LET w == WaitDelete(S, b.fingerprint, f)
          IN [res |-> w.res,
              calls |-> <<ImageCall("DeleteImage", b.fingerprint)>>,
              store |-> w.store]

(***************************************************************************)
(* State.                                                                  *)
(*   store  the remote image store                                         *)
(*   d      the resource record the framework hands to a handler and       *)
(*          persists when it returns: d.Id() and the fields fingerprint,   *)
(*          created_at, aliases                                            *)
(*   last   the handler that has just returned: its outcome, the mutating  *)
(*          store calls it issued in order, the environment of a Create,   *)
(*          the store and record it was called with, and whether the       *)
(*          handler before it was a Create, Update or Delete that returned *)
(*          nil;                                                           *)
(*          "Idle" between two calls                                       *)
(*   unit   the arguments and results of a function applied on its own     *)
(*   tmp    the temporary area of the file system: per directory name, the *)
(*          invocation of Create whose TempDir made it (NoProc: no such    *)
(*          directory)                                                     *)
(*   run    per invocation of Create, where it stands, the value of its    *)
(*          variable `dir` and what it returned                            *)
(***************************************************************************)
VARIABLES store, d, last, unit, tmp, run

vars == <<store, d, last, unit, tmp, run>>

\* the invocations of Create that can be in flight together, and no invocation
Procs == {"p", "q"}
NoProc == "none"

\* the names ioutil.TempDir("", "distrobuilder") can come up with, and no directory
Dirs == {"x", "y", "z"}
NoDir == "-"

NoTmp == [n \in Dirs |-> NoProc]
NoRun == [p \in Procs |-> [pc |-> "idle", dir |-> NoDir, res |-> Ok]]

\* ioutil.TempDir (line 67): makes a directory under a name no directory has
TempDir(T, dir, p) == [T EXCEPT ![dir] = p]

\* os.RemoveAll(dir): the directory and what it holds are gone
RemoveAll(T, dir) == [T EXCEPT ![dir] = NoProc]

\* a removal that is the last statement of the function: only a normal return runs it
RemoveAllAtEnd(T, dir, res) == IF res.kind = "ok" THEN RemoveAll(T, dir) ELSE T

\* line 71, "defer os.RemoveAll(dir)": runs when the function returns, whatever it
\* returns, and when it panics
DeferRemoveAll(T, dir, res) == RemoveAll(T, dir)

Ran(op, res, calls, after, env, logged, pre) ==
  [op |-> op, res |-> res, calls |-> calls, after |-> after, env |-> env, logged |-> logged,
   pre |-> pre]

NoRecord == [id |-> Empty, fingerprint |-> Empty, created_at |-> 0, aliases |-> <<>>]
NoStore == [images |-> {}, target |-> [n \in Names |-> NoFp]]

\* the store and the record as they were when the handler was called
Pre == [store |-> store, d |-> d]

\* no handler is running: the framework has taken the record back
Idle(after) == Ran("Idle", Ok, <<>>, after, NoEnv, {}, [store |-> NoStore, d |-> NoRecord])

NoUnit ==
  [phase |-> "none", remote |-> Empty, fingerprint |-> Empty, str |-> Empty,
   parsed |-> newbuiltImageID(Empty, Empty), restr |-> Empty,
   aliases |-> <<>>, names |-> <<>>, allAliases |-> <<>>, existing |-> <<>>]

\* a record that was never created, or one persisted with its identity and hydrated fields
Records ==
  {[id |-> Empty, fingerprint |-> Empty, created_at |-> 0, aliases |-> l] : l \in AliasLists}
    \cup {[id |-> resourceID(newbuiltImageID(Remote, fp)), fingerprint |-> fp,
           created_at |-> CreatedAt(fp), aliases |-> l] : fp \in FPs, l \in AliasLists}

Init ==
  /\ store \in Stores
  /\ d \in Records
  /\ last = Idle("other")
  /\ unit = NoUnit
  /\ tmp = NoTmp
  /\ run = NoRun

\* the handler that just returned, as the next call will see it
After ==
  IF last.op \in {"Create", "Update", "Delete"} /\ last.res.kind = "ok" THEN last.op ELSE "other"

\* the framework takes the record back from the handler that returned
Return ==
  /\ last.op # "Idle"
  /\ last' = Idle(After)
  /\ UNCHANGED <<store, d, unit, tmp, run>>

\* the framework calls Create for a record without identity, and the others for a persisted one
Create ==
  /\ last.op = "Idle"
  /\ d.id = Empty
  /\ \E e \in CreateEnvs(d.fingerprint, d.aliases), dir \in Dirs :
       LET r == resourceLxdBuiltImageCreate(store, d.fingerprint, d.aliases, e)
       IN /\ tmp[dir] = NoProc
          /\ last' = Ran("Create", r.res, <<>>, last.after, e, r.logged, Pre)
          /\ tmp' = IF e.fail = "TempDir" THEN tmp
                    ELSE DeferRemoveAll(TempDir(tmp, dir, "p"), dir, r.res)
  /\ UNCHANGED <<store, d, unit, run>>

Read ==
  /\ last.op = "Idle"
  /\ d.id # Empty
  /\ \E f \in {"none", "conn", "call"} :
       LET r == resourceLxdBuiltImageRead(store, d, f)
       IN /\ d' = r.d
          /\ last' = Ran("Read", r.res, <<>>, last.after, [NoEnv EXCEPT !.fail = f], {}, Pre)
  /\ UNCHANGED <<store, unit, tmp, run>>

\* d.Get("aliases") is the new list during and after the call; GetChange gives the old one
Update ==
  /\ last.op = "Idle"
  /\ d.id # Empty
  /\ \E new \in AliasLists, conn \in BOOLEAN :
       \E k \in 0..(IF conn THEN 0 ELSE 2 * MaxAliases) :
         LET r == resourceLxdBuiltImageUpdate(store, d.id, d.aliases, new, conn, k)
         IN /\ k <= Len(r.calls)
            /\ store' = r.store
            /\ d' = [d EXCEPT !.aliases = new]
            /\ last' = Ran("Update", r.res, r.calls, last.after, NoEnv, {}, Pre)
  /\ UNCHANGED <<unit, tmp, run>>

Delete ==
  /\ last.op = "Idle"
  /\ d.id # Empty
  /\ \E f \in {"none", "conn", "call", "wait", "lost"} :
       LET r == resourceLxdBuiltImageDelete(store, d.id, f)
       IN /\ store' = r.store
          /\ last' = Ran("Delete", r.res, r.calls, last.after, [NoEnv EXCEPT !.fail = f], {}, Pre)
  /\ UNCHANGED <<d, unit, tmp, run>>

Exists ==
  /\ last.op = "Idle"
  /\ d.id # Empty
  /\ \E f \in {"none", "conn", "call"} :
       last' = Ran("Exists", resourceLxdBuiltImageExists(store, d.id, f), <<>>, last.after,
                   [NoEnv EXCEPT !.fail = f], {}, Pre)
  /\ UNCHANGED <<store, d, unit, tmp, run>>

Next == Create \/ Read \/ Update \/ Delete \/ Exists \/ Return

Spec == Init /\ [][Next]_vars

(***************************************************************************)
(* The identity functions on their own: serialize a pair, parse the        *)
(* string, serialize the parsed pair again.                                *)
(***************************************************************************)
InitID ==
  /\ store = NoStore
  /\ d = NoRecord
  /\ last = Idle("other")
  /\ unit \in {[NoUnit EXCEPT !.phase = "pair", !.remote = r, !.fingerprint = f] :
                 r \in StringsUpTo(MaxLen), f \in StringsUpTo(MaxLen)}
  /\ tmp = NoTmp
  /\ run = NoRun

Serialize ==
  /\ unit.phase = "pair"
  /\ unit' = [unit EXCEPT !.phase = "string",
                          !.str = resourceID(newbuiltImageID(unit.remote, unit.fingerprint))]
  /\ UNCHANGED <<store, d, last, tmp, run>>

Parse ==
  /\ unit.phase = "string"
  /\ unit' = [unit EXCEPT !.phase = "parsed", !.parsed = newbuiltImageIDFromResourceID(unit.str)]
  /\ UNCHANGED <<store, d, last, tmp, run>>

Reserialize ==
  /\ unit.phase = "parsed"
  /\ ~unit.parsed.panic
  /\ unit' = [unit EXCEPT !.phase = "again", !.restr = resourceID(unit.parsed)]
  /\ UNCHANGED <<store, d, last, tmp, run>>

NextID == Serialize \/ Parse \/ Reserialize

SpecID == InitID /\ [][NextID]_vars

(***************************************************************************)
(* The two alias reconcilers on their own, against any store:              *)
(* ensureImageAliases applied to the alias list and the fingerprint of a   *)
(* persisted record, and Update of that record.                            *)
(***************************************************************************)
InitAliases ==
  /\ store \in Stores
  /\ d \in {r \in Records : r.id # Empty}
  /\ last = Idle("other")
  /\ unit = NoUnit
  /\ tmp = NoTmp
  /\ run = NoRun

EnsureImageAliases ==
  /\ last.op = "Idle"
  /\ \E order \in Orders(store), list \in BOOLEAN :
       \E k \in 0..(IF list THEN 0 ELSE 2 * MaxAliases) :
         LET r == ensureImageAliases(store, d.aliases, d.fingerprint, order, list, k)
         IN /\ k <= Len(r.calls)
            /\ store' = r.store
            /\ last' = Ran("ensureImageAliases", r.res, r.calls, "other",
                           [NoEnv EXCEPT !.fail = IF list THEN "call" ELSE "none"], {}, Pre)
  /\ UNCHANGED <<d, unit, tmp, run>>

NextAliases == EnsureImageAliases \/ Update \/ Return

SpecAliases == InitAliases /\ [][NextAliases]_vars

(***************************************************************************)
(* GetExistingAliases on its own, as ensureImageAliases uses it (lines     *)
(* 397-408): the names of the requested aliases are sorted, then matched   *)
(* against the alias entries a store lists.                                *)
(***************************************************************************)
InitExisting ==
  /\ store = NoStore
  /\ d = NoRecord
  /\ last = Idle("other")
  /\ \E S \in Stores :
       unit \in {[NoUnit EXCEPT !.phase = "aliases", !.aliases = l,
                                !.allAliases = ImageAliases(S, o)] :
                   l \in AliasLists, o \in Orders(S)}
  /\ tmp = NoTmp
  /\ run = NoRun

\* lines 397-401: names[i] = alias.Name; sort.Strings(names)
SortNames ==
  /\ unit.phase = "aliases"
  /\ unit' = [unit EXCEPT !.phase = "sorted", !.names = SortStrings(unit.aliases)]
  /\ UNCHANGED <<store, d, last, tmp, run>>

\* line 408: GetExistingAliases(names, resp)
Existing ==
  /\ unit.phase = "sorted"
  /\ unit' = [unit EXCEPT !.phase = "existing",
                          !.existing = GetExistingAliases(unit.names, unit.allAliases)]
  /\ UNCHANGED <<store, d, last, tmp, run>>

NextExisting == SortNames \/ Existing

SpecExisting == InitExisting /\ [][NextExisting]_vars

(***************************************************************************)
(* Invocations of Create in flight together, each in two steps: up to the  *)
(* deferred removal of its temporary directory (lines 66-71), and from     *)
(* there to its return or panic, when the deferred removal runs.           *)
(***************************************************************************)
InitBuild ==
  /\ store \in Stores
  /\ d \in {r \in Records : r.id = Empty}
  /\ last = Idle("other")
  /\ unit = NoUnit
  /\ tmp = NoTmp
  /\ run = NoRun

\* lines 66-71: TempDir fails and Create returns its error, or it makes a new directory
CreateEnter(p) ==
  /\ run[p].pc = "idle"
  /\ \/ /\ run' = [run EXCEPT ![p] = [pc |-> "returned", dir |-> NoDir, res |-> Err("TempDir")]]
        /\ tmp' = tmp
     \/ \E dir \in Dirs :
          /\ tmp[dir] = NoProc
          /\ tmp' = TempDir(tmp, dir, p)
          /\ run' = [run EXCEPT ![p] = [pc |-> "building", dir |-> dir, res |-> Ok]]
  /\ UNCHANGED <<store, d, last, unit>>

\* lines 73-235: the rest of Create, to the return or panic it ends in
CreateExit(p) ==
  /\ run[p].pc = "building"
  /\ \E e \in {x \in CreateEnvs(d.fingerprint, d.aliases) : x.fail # "TempDir"} :
       LET r == resourceLxdBuiltImageCreate(store, d.fingerprint, d.aliases, e)
       IN /\ tmp' = DeferRemoveAll(tmp, run[p].dir, r.res)
          /\ run' = [run EXCEPT ![p] = [pc |-> "returned", dir |-> NoDir, res |-> r.res]]
  /\ UNCHANGED <<store, d, last, unit>>

\* the framework has the outcome of the invocation
CreateReturn(p) ==
  /\ run[p].pc = "returned"
  /\ run' = [run EXCEPT ![p] = NoRun[p]]
  /\ UNCHANGED <<store, d, last, unit, tmp>>

NextBuild == \E p \in Procs : CreateEnter(p) \/ CreateExit(p) \/ CreateReturn(p)

SpecBuild == InitBuild /\ [][NextBuild]_vars

(***************************************************************************)
(* Properties.                                                             *)
(***************************************************************************)
Deletes(calls) == SelectSeq(calls, LAMBDA c : c.call = "DeleteImageAlias")
Creates(calls) == SelectSeq(calls, LAMBDA c : c.call = "CreateImageAlias")
CallNames(calls) == {calls[i].name : i \in 1..Len(calls)}
AllOk(calls) == \A i \in 1..Len(calls) : calls[i].ok

\* the fingerprint of the record's identity
IdFingerprint(rec) == newbuiltImageIDFromResourceID(rec.id).fingerprint

\* an Update that reached the store
UpdateRan == last.op = "Update" /\ last.res.err # "GetContainerServer"

C2_RoundTrip ==
  (unit.phase \in {"parsed", "again"} /\ SlashAt(unit.remote) = {} /\ unit.fingerprint # Empty) =>
    /\ ~unit.parsed.panic
    /\ unit.parsed.remote = unit.remote
    /\ unit.parsed.fingerprint = unit.fingerprint
    /\ unit.phase = "again" =>
         unit.restr = unit.str /\ unit.restr = unit.remote \o <<"/">> \o unit.fingerprint

\* a round trip completed for a fingerprint that contains a "/" itself
C2_Witness ==
  /\ unit.phase = "again" /\ SlashAt(unit.remote) = {} /\ unit.remote # Empty
  /\ SlashAt(unit.fingerprint) # {} /\ unit.parsed.fingerprint = unit.fingerprint

\* a Create none of whose steps fails: the build leaves both artifacts, the store answers,
\* a recorded fingerprint names an image of the store, no requested alias is bound
NoStageFails ==
  /\ last.env = [fail |-> "none", meta |-> TRUE, rootfs |-> TRUE, lookup |-> 0]
  /\ last.pre.d.fingerprint = Empty \/ last.pre.d.fingerprint \in last.pre.store.images
  /\ \A n \in Range(last.pre.d.aliases) : last.pre.store.target[n] = NoFp

\* C3: Create followed immediately by Exists returns true: a Create none of whose steps
\* fails returns nil with a persisted identity whose fingerprint names an image of the
\* store, and the Exists call made next returns (true, nil).
C3_CreateThenExists ==
  /\ (last.op = "Create" /\ NoStageFails) =>
       /\ last.res.kind = "ok"
       /\ d.id # Empty
       /\ IdFingerprint(d) \in store.images
  /\ (last.op = "Exists" /\ last.after = "Create" /\ last.env.fail = "none") =>
       last.res = Found(TRUE)

\* C4: Delete followed immediately by Exists returns false: when Delete returns nil it has
\* issued the delete-image call for the identity's fingerprint and the image is gone, and
\* the Exists call made next never reports the image and returns (false, nil) when the
\* store answers it.
C4_DeleteThenExists ==
  /\ (last.op = "Delete" /\ last.res.kind = "ok") =>
       /\ IdFingerprint(d) \notin store.images
       /\ last.calls = <<ImageCall("DeleteImage", IdFingerprint(d))>>
  /\ (last.op = "Exists" /\ last.after = "Delete") =>
       /\ IdFingerprint(d) \notin store.images
       /\ ~last.res.exists
       /\ last.res.kind # "panic"
       /\ last.env.fail = "none" => last.res = Found(FALSE)

\* Exists returned (false, nil) right after a Delete that returned nil
C4_Witness ==
  /\ last.op = "Exists" /\ last.after = "Delete" /\ last.env.fail = "none"
  /\ last.res = Found(FALSE)

\* C5: Read of an identity whose fingerprint the store reports as not found clears the
\* identity and returns nil; the fields fingerprint, created_at and aliases keep their
\* values and the store is not changed.
C5_ReadNotFound ==
  (/\ last.op = "Read" /\ last.env.fail = "none"
   /\ IdFingerprint(last.pre.d) \notin last.pre.store.images) =>
    /\ last.res = Ok
    /\ d = [last.pre.d EXCEPT !.id = Empty]
    /\ last.calls = <<>>
    /\ store = last.pre.store

\* Read cleared the identity of a hydrated record whose image the store no longer has
C5_Witness ==
  /\ last.op = "Read" /\ last.res = Ok /\ d.id = Empty
  /\ last.pre.d.id # Empty /\ d.fingerprint # Empty /\ d.aliases # <<>>

\* what the record holds of copied aliases: the schema declares no such field
CopiedAliases(rec) == {}

\* C6: when Read finds the image, the alias list it records is the image's store aliases
\* that are configured or not recorded as copied.
C6_ReadAliasFilter ==
  (/\ last.op = "Read" /\ last.env.fail = "none"
   /\ IdFingerprint(last.pre.d) \in last.pre.store.images) =>
    /\ last.res.kind = "ok"
    /\ \E order \in [1..Cardinality(AliasesOf(store, IdFingerprint(last.pre.d)))
                       -> AliasesOf(store, IdFingerprint(last.pre.d))] :
         d.aliases = ReadAliases(order, Range(last.pre.d.aliases), CopiedAliases(last.pre.d))

\* a Create that got as far as the check of the requested aliases
ReachedAliasCheck ==
  /\ last.op = "Create"
  /\ last.env.fail \notin BuildFails \cup {"GetContainerServer", "GetImage"}
  /\ last.pre.d.fingerprint = Empty \/ last.pre.d.fingerprint \in last.pre.store.images

\* C7: a Create that requests an alias bound on the store is rejected with the alias
\* conflict error, issues no alias call and persists no identity.
C7_AliasConflictRejected ==
  (ReachedAliasCheck /\ \E n \in Range(last.pre.d.aliases) : last.pre.store.target[n] # NoFp) =>
    /\ last.res = Err("AliasConflict")
    /\ last.calls = <<>>
    /\ store = last.pre.store
    /\ d.id = Empty

\* C8: a build that exits 0 without lxd.tar.xz or without rootfs.squashfs does not go on
\* to the transfer: Create issues no create-image call and returns an error, no identity
\* persisted.
C8_NoTransferWithoutArtifacts ==
  (last.op = "Create" /\ last.env.fail \notin BuildFails /\ (~last.env.meta \/ ~last.env.rootfs)) =>
    /\ last.res.kind = "error"
    /\ \A i \in 1..Len(last.calls) : last.calls[i].call # "CreateImage"
    /\ store.images = last.pre.store.images
    /\ d.id = Empty

\* C9: Create persists the identity only on full success: when a stage fails it returns
\* that error and the identity stays empty; when none fails it returns nil with the
\* identity set to <remote>/<fingerprint of the imported image>.
C9_IdentityOnlyOnSuccess ==
  last.op = "Create" =>
    IF NoStageFails
    THEN /\ last.res.kind = "ok"
         /\ \E fp \in store.images : d.id = resourceID(newbuiltImageID(Remote, fp))
    ELSE /\ last.res.kind = "error"
         /\ d.id = Empty

C11_ExistsOutcomes ==
  last.op = "Exists" =>
    /\ last.env.fail = "none" =>
         last.res = Found(IdFingerprint(last.pre.d) \in last.pre.store.images)
    /\ last.env.fail = "conn" => last.res = Err("GetContainerServer")
    /\ last.env.fail = "call" => last.res = Err("GetImage")
    /\ last.res.kind = "error" => ~last.res.exists
    /\ last.calls = <<>>
    /\ d = last.pre.d
    /\ store = last.pre.store

\* Exists returned (false, nil) for an identity whose image the store does not have
C11_Witness ==
  /\ last.op = "Exists" /\ last.env.fail = "none"
  /\ IdFingerprint(d) \notin store.images /\ store.images # {}
  /\ last.res = Found(FALSE)

\* the calls of a kind in a call log
CallsOf(calls, kind) == SelectSeq(calls, LAMBDA c : c.call = kind)

C13_Original ==
  (last.op # "Idle" /\ d.id # last.pre.d.id) =>
    \/ last.op = "Create" /\ last.res.kind = "ok" /\ last.pre.d.id = Empty
    \/ last.op = "Delete" /\ d.id = Empty

\* C13 (amended): the handlers change the identity of the record in one case only: a Read
\* whose lookup the store answers with "not found" clears it and returns nil.  Update,
\* Exists, the Delete handler, a Read that fails or finds the image, and a Create that
\* returns an error or panics leave the identity as it was.
C13_IdentityChanges ==
  last.op # "Idle" =>
    /\ d.id # last.pre.d.id =>
         /\ last.op = "Read" /\ last.env.fail = "none" /\ last.res = Ok
         /\ IdFingerprint(last.pre.d) \notin last.pre.store.images
         /\ d.id = Empty
    /\ (/\ last.op = "Read" /\ last.env.fail = "none"
        /\ IdFingerprint(last.pre.d) \notin last.pre.store.images) =>
         d.id = Empty /\ last.pre.d.id # Empty
    /\ last.op \in {"Update", "Exists", "Delete"} => d.id = last.pre.d.id
    /\ (last.op = "Create" /\ last.res.kind # "ok") => d.id = last.pre.d.id

\* a Read, called after a Delete that returned nil, cleared the identity the Delete left
C13_Witness ==
  /\ last.op = "Read" /\ last.after = "Delete"
  /\ last.pre.d.id # Empty /\ d.id = Empty

\* what every handler but Delete does to the images: no delete-image call, no image lost
NoImageRemoved ==
  last.op \in {"Create", "Read", "Update", "Exists"} =>
    /\ CallsOf(last.calls, "DeleteImage") = <<>>
    /\ last.pre.store.images \subseteq store.images

\* C14 as stated: Create, Read, Update and Exists issue no delete-image call and never
\* shrink the set of images; Delete issues exactly one delete-image call, for the
\* fingerprint of the identity.
C14_Original ==
  /\ NoImageRemoved
  /\ last.op = "Delete" =>
       /\ Len(last.calls) = 1
       /\ last.calls[1].call = "DeleteImage"
       /\ last.calls[1].target = IdFingerprint(last.pre.d)

\* C14 (amended): Create, Read, Update and Exists issue no delete-image call and never
\* shrink the set of images.  A Delete that gets the server issues exactly one
\* delete-image call, for the fingerprint of the identity, and no other call, and no image
\* but that one leaves the store; a Delete that cannot get the server returns that error
\* without any call.
C14_OnlyDeleteRemoves ==
  /\ NoImageRemoved
  /\ last.op = "Delete" =>
       /\ \A i \in 1..Len(last.calls) :
            /\ last.calls[i].call = "DeleteImage"
            /\ last.calls[i].target = IdFingerprint(last.pre.d)
       /\ Len(last.calls) = IF last.env.fail = "conn" THEN 0 ELSE 1
       /\ last.env.fail = "conn" => last.res = Err("GetContainerServer") /\ store = last.pre.store
       /\ store.images \subseteq last.pre.store.images
       /\ last.pre.store.images \ store.images \subseteq {IdFingerprint(last.pre.d)}

\* a Delete removed the image of the identity from a store that holds another image too
C14_Witness ==
  /\ last.op = "Delete" /\ Len(last.calls) = 1
  /\ IdFingerprint(d) \in last.pre.store.images
  /\ IdFingerprint(d) \notin store.images /\ store.images # {}

\* C15: the temporary directory an invocation of Create made is gone once the invocation
\* has returned or panicked, whichever way it ended; while an invocation is building, its
\* directory exists and is the directory of no other invocation, and no directory is left
\* without the invocation that is building in it.
C15_TempDirRemoved ==
  /\ \A p \in Procs :
       /\ run[p].pc = "returned" => \A n \in Dirs : tmp[n] # p
       /\ run[p].pc = "building" => run[p].dir \in Dirs /\ tmp[run[p].dir] = p
  /\ \A p \in Procs, q \in Procs :
       (p # q /\ run[p].pc = "building" /\ run[q].pc = "building") => run[p].dir # run[q].dir
  /\ \A n \in Dirs :
       tmp[n] # NoProc => run[tmp[n]].pc = "building" /\ run[tmp[n]].dir = n

\* an invocation has panicked and its directory is gone, while another is building in its own
C15_Witness ==
  \E p \in Procs, q \in Procs :
    /\ run[p].pc = "returned" /\ run[p].res.kind = "panic"
    /\ run[q].pc = "building" /\ tmp[run[q].dir] = q
    /\ \A n \in Dirs : tmp[n] # p

\* C16: an Update whose old and new alias lists hold the same set of names issues no call
\* and leaves the store as it was; every Update issues alias calls only and leaves the
\* identity, the recorded fingerprint and the set of images of the store unchanged.
C16_UpdateFrame ==
  last.op = "Update" =>
    /\ Range(last.pre.d.aliases) = Range(d.aliases) =>
         last.calls = <<>> /\ store = last.pre.store
    /\ \A i \in 1..Len(last.calls) :
         last.calls[i].call \in {"DeleteImageAlias", "CreateImageAlias"}
    /\ d.id = last.pre.d.id
    /\ d.fingerprint = last.pre.d.fingerprint
    /\ store.images = last.pre.store.images

\* an Update between two different lists of the same names returned nil without a call
C16_Witness ==
  /\ last.op = "Update" /\ last.res = Ok /\ last.calls = <<>>
  /\ last.pre.d.aliases # d.aliases
  /\ Range(last.pre.d.aliases) = Range(d.aliases)
  /\ Bound(store) # {}

\* C17: with no other agent acting on the store, a Create none of whose steps fails issues
\* no DeleteImageAlias call and one CreateImageAlias call per requested alias, in the order
\* of the list, each targeting the fingerprint of the image it imported.
C17_EmptyBaseline ==
  (last.op = "Create" /\ NoStageFails) =>
    LET cres == Creates(last.calls)
        req == last.pre.d.aliases
    IN /\ Deletes(last.calls) = <<>>
       /\ Len(cres) = Len(req)
       /\ \A i \in 1..Len(cres) :
            /\ cres[i].name = req[i]
            /\ cres[i].target \in store.images \ last.pre.store.images

\* the number of times a name occurs in a list
Occurrences(s, n) == Cardinality({i \in 1..Len(s) : s[i] = n})

\* C18: the names list ensureImageAliases passes to GetExistingAliases is the requested
\* names in ascending byte order, and for that list and every list of store alias entries
\* GetExistingAliases returns exactly the entries whose name is in the names list, in the
\* order of the store's list.
C18_ExistingIsIntersection ==
  /\ unit.phase \in {"sorted", "existing"} =>
       /\ Len(unit.names) = Len(unit.aliases)
       /\ \A n \in Names : Occurrences(unit.names, n) = Occurrences(unit.aliases, n)
       /\ \A i \in 1..(Len(unit.names) - 1) :
            NameRank[unit.names[i]] <= NameRank[unit.names[i + 1]]
  /\ unit.phase = "existing" =>
       unit.existing = SelectSeq(unit.allAliases, LAMBDA e : e.name \in Range(unit.names))

\* two of three store entries were returned, in the store's order, for a list given unsorted
C18_Witness ==
  /\ unit.phase = "existing"
  /\ unit.aliases # unit.names
  /\ Len(unit.allAliases) = 3 /\ Len(unit.existing) = 2
  /\ NameRank[unit.existing[1].name] > NameRank[unit.existing[2].name]

\* the Update half of C19: when the names bound to the identity's fingerprint are exactly
\* the old set and no name to add is bound, an Update that returns nil leaves exactly the
\* new set bound to that fingerprint and every other binding as it was
UpdateConverges ==
  LET A == Range(last.pre.d.aliases)
      B == Range(d.aliases)
      fp == IdFingerprint(d)
  IN (/\ UpdateRan /\ last.res = Ok
      /\ AliasesOf(last.pre.store, fp) = A
      /\ \A n \in B \ A : last.pre.store.target[n] = NoFp) =>
       /\ AliasesOf(store, fp) = B
       /\ \A n \in Names :
            last.pre.store.target[n] \notin {NoFp, fp} => store.target[n] = last.pre.store.target[n]

\* C19: a successful Update converges: under the premise above the store ends with exactly
\* the new set bound to the fingerprint, and the Read that follows, finding the image with
\* exactly the recorded aliases bound to it, returns nil and records exactly those.
C19_UpdateThenRead ==
  /\ UpdateConverges
  /\ (/\ last.op = "Read" /\ last.after = "Update" /\ last.env.fail = "none"
      /\ IdFingerprint(last.pre.d) \in last.pre.store.images
      /\ AliasesOf(last.pre.store, IdFingerprint(last.pre.d)) = Range(last.pre.d.aliases)) =>
       /\ last.res = Ok
       /\ Range(d.aliases) = Range(last.pre.d.aliases)

====
